---- MODULE Spec2Model ----
(***************************************************************************)
(* Model of the stream demultiplexer of src/main.cpp: Receiver::Receive    *)
(* with its carry-over buffer, the sink (ICallback) as a log of calls, and *)
(* the encoder pack that builds the byte streams fed to the Receiver.      *)
(*                                                                         *)
(* Pointers of the source are offsets here: a pointer p into the scanned   *)
(* block is the number p - beginData, so beginData is 0 and endData is the *)
(* length of the block; the byte *p is block[p + 1].                       *)
(***************************************************************************)
EXTENDS Integers, Sequences, FiniteSets, TLC

VARIABLES frames, stream, fed, buffer, calls, pc, input, ptr, data, ret

vars == <<frames, stream, fed, buffer, calls, pc, input, ptr, data, ret>>

----------------------------------------------------------------------------
(* Bounds of the model *)

MaxFrames == 3

MaxPayload == 2

MaxText == 2

MaxStream == 17

MaxBinaryStream == 18

MaxTextStream == 12

MaxLiveStream == 12

----------------------------------------------------------------------------
(* Constants of the program *)

START_BYTE_BINARY_BLOCK == 36

CR == 13

LF == 10

ENDING_TEXT_BLOCK == <<CR, LF, CR, LF>>

SizeofBinSize == 4

BINARY_HEADER_SIZE == 1 + SizeofBinSize

----------------------------------------------------------------------------
(* The encoder: pack *)

\* The byte values payloads and texts are drawn from: the marker, a letter,
\* and (for texts) the two bytes of the terminator.
PayloadBytes == {START_BYTE_BINARY_BLOCK, 97}

TextBytes == {97, START_BYTE_BINARY_BLOCK}

TextBytesCRLF == {97, CR, LF}

SeqsUpTo(S, n) == UNION {[1..k -> S] : k \in 0..n}

\* BinSize{.size = __bswap_32(n)}.bytes on the little-endian host: the four
\* bytes of the 32-bit n, most significant first (n is a sizeof, below 2^32).
SizeBytes(n) ==
    << (n \div 16777216) % 256, (n \div 65536) % 256, (n \div 256) % 256, n % 256 >>

\* pack<T>(value, pos, ptr): marker, length field, the bytes of the value.
PackBinary(value) == <<START_BYTE_BINARY_BLOCK>> \o SizeBytes(Len(value)) \o value

\* pack<const char *>(value, pos, ptr): the characters, then the terminator.
PackText(value) == value \o ENDING_TEXT_BLOCK

PackOne(f) == IF f.kind = "BinaryPacket" THEN PackBinary(f.bytes) ELSE PackText(f.bytes)

\* pack(std::tuple<Ts...>): the values packed one after the other.
RECURSIVE Pack(_)
Pack(fs) == IF fs = <<>> THEN <<>> ELSE PackOne(Head(fs)) \o Pack(Tail(fs))

BinaryValues(minLen) == {v \in SeqsUpTo(PayloadBytes, MaxPayload) : Len(v) >= minLen}

TextValues(alphabet) ==
    {t \in SeqsUpTo(alphabet, MaxText) : t = <<>> \/ t[1] # START_BYTE_BINARY_BLOCK}

Packet(k, b) == [kind |-> k, bytes |-> b]

BinaryFrames(minLen) == {Packet("BinaryPacket", v) : v \in BinaryValues(minLen)}

TextFrames(alphabet) == {Packet("TextPacket", t) : t \in TextValues(alphabet)}

\* The tuples of at most k values of F whose packed block has at most maxLen
\* bytes.
RECURSIVE TuplesUpTo(_, _, _)
TuplesUpTo(F, k, maxLen) ==
    IF k = 0 THEN {<<>>}
    ELSE LET shorter == TuplesUpTo(F, k - 1, maxLen)
             longest == {fs \in shorter : Len(fs) = k - 1}
         IN  shorter \cup
             {Append(x[1], x[2]) :
                x \in {y \in longest \X F : Len(Pack(y[1])) + Len(PackOne(y[2])) <= maxLen}}

Tuples(F, maxLen) == TuplesUpTo(F, MaxFrames, maxLen) \ {<<>>}

----------------------------------------------------------------------------
(* Receiver::Receive *)

\* The test of the size written so that it never holds.
ZeroSizeNever(size) == size < 0

\* if (size == 0) return;
ZeroSize(size) == size = 0

\* The block scanned when the carry-over is left out: the input alone.
BlockInputOnly == input

\* The block the scan reads: the buffer when it held bytes on entry (the
\* input was appended to it), the caller's bytes otherwise.
Block == IF buffer # <<>> THEN buffer ELSE input

\* __bswap_32(BinSize{ptr[0], ptr[1], ptr[2], ptr[3]}.size) with ptr = p: four
\* bytes, most significant first, make an unsigned 32-bit value (no wrap).
PayloadSizeAt(block, p) ==
    block[p + 1] * 16777216 + block[p + 2] * 65536 + block[p + 3] * 256 + block[p + 4]

\* The header test that asks for the length field only.
HeaderPresentShort(left) == left >= SizeofBinSize

\* if (left > BINARY_HEADER_SIZE)
HeaderPresent(left) == left > BINARY_HEADER_SIZE

\* The payload test with < for <=.
PayloadPresentStrict(payloadSize, left) == payloadSize < left

\* if (payloadSize <= left)
PayloadPresent(payloadSize, left) == payloadSize <= left

\* ptr = data; on an incomplete payload: data is the entry pointer or the
\* end of the last binary packet delivered by this scan.
ResetPtr(p, d) == d

\* The search as std::find_end would do it: the last position of the
\* terminator at or after p.
SearchLast(block, p) ==
    LET n == Len(ENDING_TEXT_BLOCK)
        found == {i \in p..(Len(block) - n) :
                    SubSeq(block, i + 1, i + n) = ENDING_TEXT_BLOCK}
    IN  IF found = {} THEN Len(block)
        ELSE CHOOSE i \in found : \A j \in found : i >= j

\* std::search(p, endData, begin(ENDING_TEXT_BLOCK), end(ENDING_TEXT_BLOCK)):
\* the first position of the terminator at or after p, endData when none.
Search(block, p) ==
    LET n == Len(ENDING_TEXT_BLOCK)
        found == {i \in p..(Len(block) - n) :
                    SubSeq(block, i + 1, i + n) = ENDING_TEXT_BLOCK}
    IN  IF found = {} THEN Len(block)
        ELSE CHOOSE i \in found : \A j \in found : i <= j

\* The advance without the terminator: ptr += packetSize;
TextAdvanceNoTerminator(packetSize) == packetSize

\* ptr += packetSize + ENDING_TEXT_BLOCK.size();
TextAdvance(packetSize) == packetSize + Len(ENDING_TEXT_BLOCK)

\* One iteration of the while loop with ptr = p and data = d: the new ptr and
\* data, the sink calls made (none or one) and whether the loop was left by
\* break.
ScanIter(block, p, d) ==
    IF block[p + 1] = START_BYTE_BINARY_BLOCK
    THEN LET left == Len(block) - p
         IN  IF HeaderPresent(left)
             THEN LET p1 == p + 1
                      payloadSize == PayloadSizeAt(block, p1)
                      p2 == p1 + SizeofBinSize
                      left2 == Len(block) - p2
                  IN  IF PayloadPresent(payloadSize, left2)
                      THEN [ptr |-> p2 + payloadSize, data |-> p2 + payloadSize,
                            out |-> <<Packet("BinaryPacket", SubSeq(block, p2 + 1, p2 + payloadSize))>>,
                            brk |-> FALSE]
                      ELSE [ptr |-> ResetPtr(p, d), data |-> d, out |-> <<>>, brk |-> TRUE]
             ELSE [ptr |-> p, data |-> d, out |-> <<>>, brk |-> TRUE]
    ELSE LET it == Search(block, p)
         IN  IF it # Len(block)
             THEN LET packetSize == it - p
                  IN  [ptr |-> p + TextAdvance(packetSize), data |-> d,
                       out |-> <<Packet("TextPacket", SubSeq(block, p + 1, p + packetSize))>>,
                       brk |-> FALSE]
             ELSE [ptr |-> p, data |-> d, out |-> <<>>, brk |-> TRUE]

\* Lines 153-161 without the erase of the processed bytes.
NewBufferNoErase(buf, inp, p) ==
    IF buf = <<>> /\ Len(inp) - p > 0
    THEN SubSeq(inp, p + 1, Len(inp))
    ELSE buf

\* Lines 153-161 with the copy taken from beginData instead of ptr.
NewBufferCopyHead(buf, inp, p) ==
    IF buf # <<>> /\ p > 0
    THEN SubSeq(buf, p + 1, Len(buf))
    ELSE IF buf = <<>> /\ Len(inp) - p > 0
         THEN SubSeq(inp, 1, Len(inp) - p)
         ELSE buf

\* The buffer after the scan stopped with ptr = p over a block of `size`
\* bytes: the processed prefix erased, or the unprocessed tail copied in.
NewBuffer(buf, inp, p) ==
    LET size == IF buf # <<>> THEN Len(buf) ELSE Len(inp)
        processedBytes == p
        unprocessedBytes == size - processedBytes
    IN  IF buf # <<>> /\ processedBytes > 0
        THEN SubSeq(buf, processedBytes + 1, Len(buf))
        ELSE IF buf = <<>> /\ unprocessedBytes > 0
             THEN SubSeq(inp, p + 1, p + unprocessedBytes)
             ELSE buf

\* The sink calls of the whole while loop entered with ptr = p and data = d.
RECURSIVE ScanAll(_, _, _)
ScanAll(block, p, d) ==
    IF ~(p < Len(block)) THEN <<>>
    ELSE LET r == ScanIter(block, p, d)
         IN  IF r.brk THEN r.out ELSE r.out \o ScanAll(block, r.ptr, r.data)

\* The sink calls of one Receive(S) on a Receiver whose buffer is empty.
ReceiveFresh(S) == IF ZeroSize(Len(S)) THEN <<>> ELSE ScanAll(S, 0, 0)

\* The stream offset of the first byte of the block being scanned.
Base == fed - Len(Block)

TypeOK ==
    /\ stream = Pack(frames)
    /\ fed \in 0..Len(stream)
    /\ pc \in {"idle", "scan", "tail"}
    /\ ret \in {"none", "early", "end"}
    /\ ptr \in 0..Len(Block)
    /\ data \in 0..Len(Block)

InitWith(F, maxLen) ==
    /\ frames \in Tuples(F, maxLen)
    /\ stream = Pack(frames)
    /\ fed = 0
    /\ buffer = <<>>
    /\ calls = <<>>
    /\ pc = "idle"
    /\ input = <<>>
    /\ ptr = 0
    /\ data = 0
    /\ ret = "none"

\* Any mix of binary and text frames.
Init == InitWith(BinaryFrames(0) \cup TextFrames(TextBytes), MaxStream)

\* The same mix, in shorter streams.
InitLive == InitWith(BinaryFrames(0) \cup TextFrames(TextBytes), MaxLiveStream)

\* Binary frames with a payload of at least one byte.
InitBinary == InitWith(BinaryFrames(1), MaxBinaryStream)

\* Text frames, with the bytes of the terminator among the characters.
InitText == InitWith(TextFrames(TextBytesCRLF), MaxTextStream)

\* The caller passes the next n bytes of the stream: lines 98-115, up to the
\* first test of the loop condition.
Receive(n) ==
    /\ pc = "idle"
    /\ LET chunk == SubSeq(stream, fed + 1, fed + n)
       IN  IF ZeroSize(Len(chunk))
           THEN /\ ret' = "early"
                /\ UNCHANGED <<frames, stream, fed, buffer, calls, pc, input, ptr, data>>
           ELSE /\ fed' = fed + n
                /\ input' = chunk
                /\ buffer' = IF buffer # <<>> THEN buffer \o chunk ELSE buffer
                /\ ptr' = 0
                /\ data' = 0
                /\ pc' = IF 0 < Len(buffer \o chunk) THEN "scan" ELSE "tail"
                /\ UNCHANGED <<frames, stream, calls, ret>>

Call == \E n \in 0..(Len(stream) - fed) : Receive(n)

\* One iteration of the while loop and the next test of its condition.
ScanStep ==
    /\ pc = "scan"
    /\ LET r == ScanIter(Block, ptr, data)
       IN  /\ ptr' = r.ptr
           /\ data' = r.data
           /\ calls' = calls \o [i \in 1..Len(r.out) |->
                                   [kind |-> r.out[i].kind, bytes |-> r.out[i].bytes,
                                    off |-> Base + ptr]]
           /\ pc' = IF r.brk \/ ~(r.ptr < Len(Block)) THEN "tail" ELSE "scan"
    /\ UNCHANGED <<frames, stream, fed, buffer, input, ret>>

\* Lines 153-161 and the return to the caller, whose block is gone then.
Finish ==
    /\ pc = "tail"
    /\ buffer' = NewBuffer(buffer, input, ptr)
    /\ pc' = "idle"
    /\ input' = <<>>
    /\ ptr' = 0
    /\ data' = 0
    /\ ret' = "end"
    /\ UNCHANGED <<frames, stream, fed, calls>>

Next == Call \/ ScanStep \/ Finish

Spec == Init /\ [][Next]_vars

SpecBinary == InitBinary /\ [][Next]_vars

SpecText == InitText /\ [][Next]_vars

\* Receive runs to its end once called: nothing in it waits.
FairSpec == InitLive /\ [][Next]_vars /\ WF_vars(ScanStep) /\ WF_vars(Finish)

----------------------------------------------------------------------------
(* What the sink saw, and where the frames of the stream lie *)

\* The sink calls without the stream offsets: kind and payload bytes.
Strip(cs) == [i \in 1..Len(cs) |-> Packet(cs[i].kind, cs[i].bytes)]

\* The stream offset of the first byte of frame k, and of the byte after it.
FrameStart(k) == Len(Pack(SubSeq(frames, 1, k - 1)))

FrameEnd(k) == Len(Pack(SubSeq(frames, 1, k)))

\* The number of sink calls made for the frame that starts at offset o.
CallsAt(o) == Cardinality({i \in 1..Len(calls) : calls[i].off = o})

\* The frames whose last byte has been fed.
Completed == SubSeq(frames, 1, Cardinality({k \in 1..Len(frames) : FrameEnd(k) <= fed}))

\* The sink calls made for frames at or after stream offset o.
CallsFrom(o) == Strip(SelectSeq(calls, LAMBDA c : c.off >= o))

\* s is exactly one complete binary frame: marker, length L, L bytes.
IsBinaryFrame(s) ==
    /\ Len(s) >= BINARY_HEADER_SIZE
    /\ s[1] = START_BYTE_BINARY_BLOCK
    /\ Len(s) = BINARY_HEADER_SIZE + PayloadSizeAt(s, 1)

ContainsTerminator(t) ==
    \E i \in 0..(Len(t) - Len(ENDING_TEXT_BLOCK)) :
        SubSeq(t, i + 1, i + Len(ENDING_TEXT_BLOCK)) = ENDING_TEXT_BLOCK

EndsWithCRLF(t) == Len(t) >= 2 /\ t[Len(t) - 1] = CR /\ t[Len(t)] = LF

----------------------------------------------------------------------------
(* The claims *)

\* C1. Fragmentation invariance: however the bytes fed so far were cut into
\* Receive calls, the sink calls made (kind and bytes, in order) are those of
\* a single Receive of the same bytes on a fresh Receiver.
FragmentationInvariance ==
    pc = "idle" => Strip(calls) = ReceiveFresh(SubSeq(stream, 1, fed))

\* C2. Exactly-once delivery: no frame of the stream (identified by the
\* stream offset it starts at) is passed to the sink by more than one call.
ExactlyOnce ==
    \A i, j \in 1..Len(calls) : i # j => calls[i].off # calls[j].off

\* C3. Ordered delivery: the stream offset of the frame of sink call N is at
\* most the stream offset of the frame of sink call N+1.
OrderedDelivery ==
    \A i \in 1..(Len(calls) - 1) : calls[i].off <= calls[i + 1].off

\* The stream is a binary frame, a text frame, a binary frame.
IsBTB ==
    /\ Len(frames) = 3
    /\ frames[1].kind = "BinaryPacket"
    /\ frames[2].kind = "TextPacket"
    /\ frames[3].kind = "BinaryPacket"

\* C4. Interleaving: for a stream binary frame, text frame, binary frame, the
\* sink calls are at all times the first frames of the stream in order, and
\* once the whole stream was fed they are exactly the three frames.
Interleaving ==
    IsBTB =>
        /\ Len(calls) <= 3
        /\ Strip(calls) = SubSeq(frames, 1, Len(calls))
        /\ (pc = "idle" /\ fed = Len(stream)) => Strip(calls) = frames

\* C5. Single-call completeness: a Receive call entered with an empty buffer
\* whose input is exactly one complete binary frame (any length L >= 0) makes
\* exactly one BinaryPacket call, with the payload, and leaves the buffer empty.
SingleCallCompleteness ==
    [][(pc = "tail" /\ buffer = <<>> /\ IsBinaryFrame(input)) =>
          /\ CallsFrom(Base) =
                <<Packet("BinaryPacket", SubSeq(input, BINARY_HEADER_SIZE + 1, Len(input)))>>
          /\ buffer' = <<>>]_vars

\* C6. Idle tail retention: no sink call is made for a frame before its last
\* byte was fed, and once a Receive call that fed its last byte has returned
\* the frame has been delivered exactly once, with its payload.
IdleTailRetention ==
    \A k \in 1..Len(frames) :
        /\ fed < FrameEnd(k) => CallsAt(FrameStart(k)) = 0
        /\ (pc = "idle" /\ fed >= FrameEnd(k)) =>
              /\ CallsAt(FrameStart(k)) = 1
              /\ \E i \in 1..Len(calls) :
                    /\ calls[i].off = FrameStart(k)
                    /\ Packet(calls[i].kind, calls[i].bytes) = frames[k]

\* C7. Zero-length no-op: a Receive call with size 0 returns at once, makes
\* no sink call and leaves the buffer as it was.
ZeroLengthNoOp ==
    [][(pc = "idle" /\ fed' = fed) =>
          (pc' = "idle" /\ buffer' = buffer /\ calls' = calls)]_vars

\* A zero-length Receive has returned on a Receiver whose buffer holds bytes.
ZeroLengthWitness == pc = "idle" /\ ret = "early" /\ buffer # <<>> /\ calls # <<>>

\* C8. Split binary frames: for a stream of binary frames with payloads of at
\* least one byte, cut into Receive calls anywhere, the sink calls after each
\* call are exactly the frames completed so far, one BinaryPacket each, in
\* stream order, and the buffer is empty once the whole stream was fed.
SplitBinaryFrames ==
    pc = "idle" =>
        /\ Strip(calls) = Completed
        /\ \A i \in 1..Len(calls) : calls[i].off = FrameStart(i)
        /\ fed = Len(stream) => buffer = <<>>

\* The last chunk completes a frame that was carried over in the buffer, and
\* every frame of a stream of several frames has been delivered.
SplitBinaryWitness ==
    /\ pc = "tail"
    /\ fed = Len(stream)
    /\ buffer # <<>>
    /\ Len(buffer) > Len(input)
    /\ ptr = Len(buffer)
    /\ Len(frames) >= 2
    /\ Strip(calls) = frames

\* Every frame is a text that neither starts with the marker nor contains the
\* terminator.
PlainTexts ==
    \A k \in 1..Len(frames) :
        /\ frames[k].kind = "TextPacket"
        /\ frames[k].bytes = <<>> \/ frames[k].bytes[1] # START_BYTE_BINARY_BLOCK
        /\ ~ContainsTerminator(frames[k].bytes)

\* The scan of a Receive call that was given the whole stream at once, on an
\* empty buffer, has stopped.
WholeStreamCall == pc = "tail" /\ buffer = <<>> /\ input = stream

\* C9, as claimed. Consecutive text frames: one Receive of a whole stream of k
\* text frames, none starting with the marker or containing the terminator,
\* makes exactly the k TextPacket calls in order and leaves the buffer empty.
ConsecutiveTextFramesAsClaimed ==
    [][(WholeStreamCall /\ PlainTexts) =>
          (Strip(calls) = frames /\ buffer' = <<>>)]_vars

\* C9, amended. The same, for text frames that also do not end with CR LF
\* (a text ending with CR LF completes a terminator two bytes early).
ConsecutiveTextFrames ==
    [][(WholeStreamCall /\ PlainTexts
            /\ \A k \in 1..Len(frames) : ~EndsWithCRLF(frames[k].bytes)) =>
          (Strip(calls) = frames /\ buffer' = <<>>)]_vars

\* One Receive of a stream of several text frames, one of them with bytes of
\* the terminator in it, has delivered them all.
ConsecutiveTextWitness ==
    /\ WholeStreamCall
    /\ PlainTexts
    /\ \A k \in 1..Len(frames) : ~EndsWithCRLF(frames[k].bytes)
    /\ Len(frames) >= 2
    /\ \E k \in 1..Len(frames) : \E i \in 1..Len(frames[k].bytes) : frames[k].bytes[i] = CR
    /\ Strip(calls) = frames
    /\ ptr = Len(input)

\* C10. Termination: every iteration of the scan loop that does not stop the
\* scan delivers one frame and strictly advances the cursor, and every Receive
\* call returns.
ReceiveTerminates ==
    /\ [][(pc = "scan" /\ pc' = "scan") =>
             (ptr' > ptr /\ Len(calls') = Len(calls) + 1)]_vars
    /\ (pc # "idle" ~> pc = "idle")

\* A scan went on after delivering a frame.
TerminatesWitness == pc = "scan" /\ ptr > 0 /\ calls # <<>> /\ buffer # <<>>

\* C11. Text payload: the bytes of every TextPacket call are the bytes from
\* the cursor up to, and without, the first terminator at or after the cursor
\* (so they never contain a whole terminator), and the cursor moves to the
\* byte right after that terminator.
TextPayloadRule ==
    [][(pc = "scan" /\ Block[ptr + 1] # START_BYTE_BINARY_BLOCK
            /\ Len(calls') = Len(calls) + 1) =>
          LET c == calls'[Len(calls')]
              n == Len(c.bytes)
          IN  /\ c.kind = "TextPacket"
              /\ c.bytes = SubSeq(Block, ptr + 1, ptr + n)
              /\ SubSeq(Block, ptr + n + 1, ptr + n + Len(ENDING_TEXT_BLOCK)) = ENDING_TEXT_BLOCK
              /\ ~ContainsTerminator(SubSeq(Block, ptr + 1, ptr + n + Len(ENDING_TEXT_BLOCK) - 1))
              /\ ~ContainsTerminator(c.bytes)
              /\ ptr' = ptr + n + Len(ENDING_TEXT_BLOCK)]_vars

\* A text with a byte of the terminator in it was delivered and the scan goes
\* on behind its terminator.
TextPayloadWitness ==
    /\ pc = "scan"
    /\ calls # <<>>
    /\ calls[Len(calls)].kind = "TextPacket"
    /\ \E i \in 1..Len(calls[Len(calls)].bytes) : calls[Len(calls)].bytes[i] = CR
    /\ ptr = calls[Len(calls)].off - Base + Len(calls[Len(calls)].bytes) + Len(ENDING_TEXT_BLOCK)

\* The stream offset where the frame not yet completed by the bytes fed starts
\* (the offset fed itself when the bytes fed end with a frame).
TailStart == FrameEnd(Len(Completed))

\* The stream offset of the byte after the frame that sink call c delivered.
CallEnd(c) ==
    c.off + (IF c.kind = "BinaryPacket" THEN BINARY_HEADER_SIZE ELSE Len(ENDING_TEXT_BLOCK))
          + Len(c.bytes)

\* C12. Carry-over invariant: after every Receive call the buffer holds no
\* byte of a frame that was delivered to the sink, and it is no longer than
\* the part received so far of the one incomplete frame at the tail of the
\* bytes fed (so it is empty when the bytes fed end with a frame).
CarryOverInvariant ==
    pc = "idle" =>
        /\ \A i \in 1..Len(calls) : CallEnd(calls[i]) <= fed - Len(buffer)
        /\ Len(buffer) <= fed - TailStart

\* C13. Incomplete binary payload: an iteration that finds the marker at the
\* cursor, the five header bytes present and fewer payload bytes behind them
\* than the length field declares stops the scan with the cursor at that
\* marker and makes no sink call.
IncompletePayloadReset ==
    [][(/\ pc = "scan"
        /\ Block[ptr + 1] = START_BYTE_BINARY_BLOCK
        /\ Len(Block) - ptr >= BINARY_HEADER_SIZE
        /\ PayloadSizeAt(Block, ptr + 1) > Len(Block) - (ptr + BINARY_HEADER_SIZE)) =>
          (pc' = "tail" /\ ptr' = ptr /\ calls' = calls)]_vars

\* C14. Header-presence check: with the marker at the cursor, the iteration
\* stops the scan for an incomplete header when fewer than five bytes remain
\* from the cursor, and only then: with five or more the length field is
\* read, and a frame whose payload is all there (a frame of length 0 whose
\* header ends the block included) is delivered in this iteration.
HeaderPresenceCheck ==
    [][(pc = "scan" /\ Block[ptr + 1] = START_BYTE_BINARY_BLOCK) =>
          IF Len(Block) - ptr < BINARY_HEADER_SIZE
          THEN pc' = "tail" /\ ptr' = ptr /\ calls' = calls
          ELSE LET L == PayloadSizeAt(Block, ptr + 1)
                   p2 == ptr + BINARY_HEADER_SIZE
               IN  L <= Len(Block) - p2 =>
                      /\ Strip(calls') =
                            Append(Strip(calls), Packet("BinaryPacket", SubSeq(Block, p2 + 1, p2 + L)))
                      /\ ptr' = p2 + L]_vars

\* The bytes fed end inside the terminator of text frame k, after one, two or
\* three of its bytes, and a Receive call has returned there.
SplitInTerminator(k) ==
    /\ k <= Len(frames)
    /\ frames[k].kind = "TextPacket"
    /\ pc = "idle"
    /\ FrameEnd(k) - Len(ENDING_TEXT_BLOCK) < fed
    /\ fed < FrameEnd(k)

\* No sink call for frame k before its last byte was fed, never more than one,
\* and exactly one, with the bytes of the frame, once the Receive call that
\* fed its last byte has returned.
DeliveredOnce(k) ==
    k <= Len(frames) =>
        /\ fed < FrameEnd(k) => CallsAt(FrameStart(k)) = 0
        /\ CallsAt(FrameStart(k)) <= 1
        /\ (pc = "idle" /\ fed >= FrameEnd(k)) =>
              \E i \in 1..Len(calls) :
                  /\ calls[i].off = FrameStart(k)
                  /\ Packet(calls[i].kind, calls[i].bytes) = frames[k]

\* C15. Incomplete text: an iteration that finds no whole terminator from the
\* cursor to the end of the block makes no sink call and leaves the cursor at
\* the start of the text; and a text whose terminator was split between
\* chunks is delivered once, with all the bytes before the terminator, when
\* the last byte of the terminator has arrived.
IncompleteText ==
    /\ [][(pc = "scan" /\ Block[ptr + 1] # START_BYTE_BINARY_BLOCK
               /\ ~ContainsTerminator(SubSeq(Block, ptr + 1, Len(Block)))) =>
             (pc' = "tail" /\ ptr' = ptr /\ calls' = calls)]_vars
    /\ \A k \in 1..MaxFrames : [](SplitInTerminator(k) => []DeliveredOnce(k))

\* C16. The carry-over update at the end of a Receive call: with B the block
\* scanned (the carry-over with the input appended when the carry-over was
\* not empty, else the input) and ptr the final cursor offset in B, the
\* carry-over after the call is B without its first ptr bytes; an empty
\* carry-over stays empty when the whole input was resolved.
CarryOverUpdate ==
    [][pc = "tail" =>
         /\ buffer' = SubSeq(Block, ptr + 1, Len(Block))
         /\ (buffer = <<>> /\ ptr = Len(input)) => buffer' = <<>>
         /\ pc' = "idle"]_vars

\* A scan of a non-empty carry-over has ended with some bytes processed and
\* some left.
CarryOverUpdateWitness ==
    /\ pc = "tail"
    /\ buffer # <<>>
    /\ 0 < ptr
    /\ ptr < Len(buffer)
    /\ calls # <<>>

\* Frame k is a text frame with a marker byte after its first byte.
MarkerInsideText(k) ==
    /\ k <= Len(frames)
    /\ frames[k].kind = "TextPacket"
    /\ \E j \in 2..Len(frames[k].bytes) : frames[k].bytes[j] = START_BYTE_BINARY_BLOCK

\* Sink call c is made for frame k: at its first byte, with its kind and value.
CallOfFrame(c, k) ==
    /\ c.off = FrameStart(k)
    /\ Packet(c.kind, c.bytes) = frames[k]

\* C17. A marker byte after the first byte of a text frame is text: the scan
\* examines a byte for the marker only at the first byte of a frame, every
\* sink call is made for a frame of the stream at that frame's first byte
\* with that frame's value, and a text frame holding such a marker has got
\* its TextPacket call with the marker in the payload once a Receive call
\* that was fed its last byte has returned, wherever the chunk boundaries
\* fell.
MarkerInTextIsText ==
    /\ pc = "scan" => \E k \in 1..Len(frames) : Base + ptr = FrameStart(k)
    /\ \A i \in 1..Len(calls) : \E k \in 1..Len(frames) : CallOfFrame(calls[i], k)
    /\ \A k \in 1..MaxFrames :
         (MarkerInsideText(k) /\ pc = "idle" /\ fed >= FrameEnd(k)) =>
            \E i \in 1..Len(calls) : CallOfFrame(calls[i], k)

\* A chunk boundary fell immediately before a marker byte inside a text
\* frame, and the call that received that chunk has delivered the frame.
MarkerInTextWitness ==
    /\ pc = "tail"
    /\ buffer # <<>>
    /\ input # <<>>
    /\ input[1] = START_BYTE_BINARY_BLOCK
    /\ \E k \in 1..Len(frames) :
         /\ MarkerInsideText(k)
         /\ FrameStart(k) < fed - Len(input)
         /\ fed - Len(input) < FrameStart(k) + Len(frames[k].bytes)
         /\ \E i \in 1..Len(calls) : CallOfFrame(calls[i], k)

\* The unsigned 32-bit big-endian value of the bytes b0 b1 b2 b3.
BigEndian(b0, b1, b2, b3) == b0 * 16777216 + b1 * 65536 + b2 * 256 + b3

\* C18. The four bytes after a marker give the length L as a big-endian
\* unsigned 32-bit number; when at least L bytes follow the length field,
\* the step calls BinaryPacket with exactly those L bytes and moves the
\* cursor by 5 + L; and the length field that pack writes for a binary value
\* decodes to the size of the value.
BinaryLengthDecoding ==
    /\ [][(pc = "scan" /\ Block[ptr + 1] = START_BYTE_BINARY_BLOCK
              /\ Len(Block) - ptr >= BINARY_HEADER_SIZE) =>
            LET L == BigEndian(Block[ptr + 2], Block[ptr + 3], Block[ptr + 4], Block[ptr + 5])
                p2 == ptr + BINARY_HEADER_SIZE
            IN  L <= Len(Block) - p2 =>
                  /\ Len(calls') = Len(calls) + 1
                  /\ calls'[Len(calls')].kind = "BinaryPacket"
                  /\ calls'[Len(calls')].bytes = SubSeq(Block, p2 + 1, p2 + L)
                  /\ ptr' = ptr + BINARY_HEADER_SIZE + L]_vars
    /\ [](\A k \in 1..Len(frames) :
            frames[k].kind = "BinaryPacket" =>
               PayloadSizeAt(PackOne(frames[k]), 1) = Len(frames[k].bytes))

\* The stream offset of the first byte of the carry-over buffer.
BufferStart == fed - Len(buffer)

\* C19. After every Receive call the carry-over buffer is the last
\* Len(buffer) bytes of all the bytes fed so far, and every frame with a byte
\* before the start of the buffer lies wholly before it and has been passed
\* to the sink: no undelivered byte is dropped, no byte that was not fed
\* appears.
ByteConservation ==
    pc = "idle" =>
       /\ Len(buffer) <= fed
       /\ buffer = SubSeq(stream, BufferStart + 1, fed)
       /\ \A k \in 1..Len(frames) :
            FrameStart(k) < BufferStart =>
               /\ FrameEnd(k) <= BufferStart
               /\ \E i \in 1..Len(calls) : CallOfFrame(calls[i], k)

\* A Receive call has returned with frames delivered and a tail kept.
ByteConservationWitness ==
    /\ pc = "idle"
    /\ ret = "end"
    /\ buffer # <<>>
    /\ 0 < BufferStart
    /\ calls # <<>>
    /\ fed < Len(stream)

\* The stream offset after the last byte of the range passed to the sink in
\* call c: the payload after the header, or the text at the cursor.
SinkRangeEnd(c) ==
    c.off + (IF c.kind = "BinaryPacket" THEN BINARY_HEADER_SIZE ELSE 0) + Len(c.bytes)

\* C20. At every step of the scan the cursor and the reset pointer lie
\* between the start and the end of the block; the byte tested for the
\* marker lies inside the block; when the header test passes, the four
\* length bytes lie inside the block; every range passed to the sink lies
\* inside the bytes received; and at the end of the scan the count of
\* processed bytes is between 0 and the size of the block.
CursorBounds ==
    /\ 0 <= ptr /\ ptr <= Len(Block)
    /\ 0 <= data /\ data <= Len(Block)
    /\ pc = "scan" =>
         /\ ptr < Len(Block)
         /\ (Block[ptr + 1] = START_BYTE_BINARY_BLOCK /\ HeaderPresent(Len(Block) - ptr)) =>
               ptr + BINARY_HEADER_SIZE <= Len(Block)
    /\ \A i \in 1..Len(calls) : 0 <= calls[i].off /\ SinkRangeEnd(calls[i]) <= fed
    /\ pc = "tail" => Len(Block) - ptr \in 0..Len(Block)

\* The scan stands on a marker with its header present, after the cursor has
\* moved over a delivered frame in a block that began with the carry-over.
CursorBoundsWitness ==
    /\ pc = "scan"
    /\ buffer # <<>>
    /\ 0 < ptr
    /\ Block[ptr + 1] = START_BYTE_BINARY_BLOCK
    /\ HeaderPresent(Len(Block) - ptr)
    /\ calls # <<>>

====
